---------------------------- MODULE Spec2Model ----------------------------
(***************************************************************************)
(* The query-key request router of the Training-Module GUI                 *)
(* (GUI/src/main.tsx): defaultQueryFn and callApiInstance.                 *)
(*                                                                         *)
(* A query key is a non-empty sequence of string tokens.  One resolve call *)
(* runs synchronously up to its single await (the request is issued), and  *)
(* is resumed by the response body or rejected by a transport error.       *)
(* JavaScript values that the code only passes around are records, so that *)
(* a body, its response field and undefined are distinct values:           *)
(*   Str(s)           a string                                             *)
(*   Undefined, Null  the two nullish values                               *)
(*   [response |-> p] an envelope                                          *)
(*                                                                         *)
(* The two components of GUI/src/pages/Training/Stories/index.tsx, the     *)
(* Stories page and IntentExamplesTable, are modelled after the router.    *)
(* One of them at most is mounted; each handler, with the state updates it *)
(* makes and the effect they trigger, is one step.                         *)
(***************************************************************************)
EXTENDS Integers, Sequences, FiniteSets, TLC

VARIABLES
    REACT_APP_LOCAL,   \* import.meta.env.REACT_APP_LOCAL
    mockedEndpoints,   \* the list imported from services/mocked-endpoints
    calls,             \* per resolve call: position, key, await site, outcome
    requests,          \* every request issued so far, in order
    page,              \* the Stories page: its state, its queries, its backend
    table              \* IntentExamplesTable: its state and its props

routerVars == <<REACT_APP_LOCAL, mockedEndpoints, calls, requests>>
uiVars == <<page, table>>
vars == <<REACT_APP_LOCAL, mockedEndpoints, calls, requests, page, table>>

\* a component that is not rendered
NotMounted == [mounted |-> FALSE]

-----------------------------------------------------------------------------
(* Bounds of the model.                                                    *)

\* longest query key explored
MaxKeyLen == 3

-----------------------------------------------------------------------------
(* JavaScript strings and arrays.                                          *)

\* String.prototype.startsWith
startsWith(s, prefix) ==
    /\ Len(prefix) <= Len(s)
    /\ SubSeq(s, 1, Len(prefix)) = prefix

\* String.prototype.includes
strIncludes(s, sub) ==
    \E i \in 1..(Len(s) + 1) :
        /\ i + Len(sub) - 1 <= Len(s)
        /\ SubSeq(s, i, i + Len(sub) - 1) = sub

\* Array.prototype.includes on a query key
includes(queryKey, token) == \E i \in 1..Len(queryKey) : queryKey[i] = token

Str(s) == [str |-> s]
Undefined == [undefined |-> TRUE]
Null == [null |-> TRUE]

\* queryKey[1]: the second element, undefined when the key has one element
keyAt1(queryKey) == IF Len(queryKey) >= 2 THEN Str(queryKey[2]) ELSE Undefined

\* a property read v.f: the field, undefined when absent.  Reading a
\* property of undefined or null throws (see Throws).
Get(v, f) == IF f \in DOMAIN v THEN v[f] ELSE Undefined
Nullish(v) == v \in {Undefined, Null}


-----------------------------------------------------------------------------
(* The inputs explored.                                                    *)

\* tokens a query key is built from: every token the router tests for, a
\* first token containing "auth", and a resource no rule names
Tokens ==
    { "settings", "prod", "cs-get-all-active-chats", "regex", "examples",
      "slots/slotById", "forms/formById", "story-by-name", "rule-by-name",
      "intents-report", "entities", "regexes", "auth/me", "rules" }

Keys == UNION { [1..n -> Tokens] : n \in 1..MaxKeyLen }

\* candidate contents of the mocked-endpoint prefix list
MockedLists == { << >>, << "slots/", "cs-get", "auth" >> }

\* response bodies a backend may answer with
Payload1 == [regexes |-> [list |-> "r1"], items |-> Str("p1")]
Payload2 == [items |-> Str("p2")]
Bodies ==
    { [response |-> Payload1],      \* an envelope whose payload holds regexes
      [response |-> Payload2],      \* an envelope without regexes
      [other |-> Str("raw")],       \* an object that is no envelope
      Null }                        \* a JSON null body

TransportErrors == { "NetworkError", "Status500" }

-----------------------------------------------------------------------------
(* defaultQueryFn and callApiInstance: the rule chain.                     *)

\* a local test that forgets the environment flag
isLocal_noEnv(env, queryKey) == includes(queryKey, "prod")

\* line 17
isLocal(env, queryKey) == env = "true" /\ includes(queryKey, "prod")

\* line 18
isMocked(endpoints, queryKey) ==
    \E i \in 1..Len(endpoints) : startsWith(queryKey[1], endpoints[i])

\* a secondary stage whose last rule is taken by default
callApiInstanceSite_noDefault(queryKey) ==
    IF includes(queryKey, "slots/slotById") THEN "L62"
    ELSE IF includes(queryKey, "forms/formById") THEN "L69"
    ELSE IF includes(queryKey, "story-by-name") THEN "L76"
    ELSE IF includes(queryKey, "rule-by-name") THEN "L83"
    ELSE "L90"

\* callApiInstance: the await the call suspends at, named by its line
callApiInstanceSite(queryKey) ==
    IF includes(queryKey, "slots/slotById") THEN "L62"
    ELSE IF includes(queryKey, "forms/formById") THEN "L69"
    ELSE IF includes(queryKey, "story-by-name") THEN "L76"
    ELSE IF includes(queryKey, "rule-by-name") THEN "L83"
    ELSE IF includes(queryKey, "intents-report") THEN "L90"
    ELSE "L94"

\* a rule chain that tests "settings" before the mocked/local rule
defaultQueryFnSite_settingsFirst(env, endpoints, queryKey) ==
    IF includes(queryKey, "settings") THEN "L25"
    ELSE IF isLocal(env, queryKey) \/ isMocked(endpoints, queryKey) THEN "L21"
    ELSE IF includes(queryKey, "prod") THEN
        IF includes(queryKey, "cs-get-all-active-chats") THEN "L30" ELSE "L36"
    ELSE IF strIncludes(queryKey[1], "auth") THEN "L42"
    ELSE IF includes(queryKey, "regex") /\ includes(queryKey, "examples") THEN "L50"
    ELSE callApiInstanceSite(queryKey)

\* a rule chain that tests "prod" before "settings"
defaultQueryFnSite_prodFirst(env, endpoints, queryKey) ==
    IF isLocal(env, queryKey) \/ isMocked(endpoints, queryKey) THEN "L21"
    ELSE IF includes(queryKey, "prod") THEN
        IF includes(queryKey, "cs-get-all-active-chats") THEN "L30" ELSE "L36"
    ELSE IF includes(queryKey, "settings") THEN "L25"
    ELSE IF strIncludes(queryKey[1], "auth") THEN "L42"
    ELSE IF includes(queryKey, "regex") /\ includes(queryKey, "examples") THEN "L50"
    ELSE callApiInstanceSite(queryKey)

\* a rule chain that tests "regex"/"examples" before the auth rule
defaultQueryFnSite_regexFirst(env, endpoints, queryKey) ==
    IF isLocal(env, queryKey) \/ isMocked(endpoints, queryKey) THEN "L21"
    ELSE IF includes(queryKey, "settings") THEN "L25"
    ELSE IF includes(queryKey, "prod") THEN
        IF includes(queryKey, "cs-get-all-active-chats") THEN "L30" ELSE "L36"
    ELSE IF includes(queryKey, "regex") /\ includes(queryKey, "examples") THEN "L50"
    ELSE IF strIncludes(queryKey[1], "auth") THEN "L42"
    ELSE callApiInstanceSite(queryKey)

\* defaultQueryFn: the await the call suspends at, named by its line
defaultQueryFnSite(env, endpoints, queryKey) ==
    IF isLocal(env, queryKey) \/ isMocked(endpoints, queryKey) THEN "L21"
    ELSE IF includes(queryKey, "settings") THEN "L25"
    ELSE IF includes(queryKey, "prod") THEN
        IF includes(queryKey, "cs-get-all-active-chats") THEN "L30" ELSE "L36"
    ELSE IF strIncludes(queryKey[1], "auth") THEN "L42"
    ELSE IF includes(queryKey, "regex") /\ includes(queryKey, "examples") THEN "L50"
    ELSE callApiInstanceSite(queryKey)

NoHeaders == {}
NoBody == [nobody |-> TRUE]

Get_(client, path) ==
    [client |-> client, method |-> "GET", path |-> path,
     headers |-> NoHeaders, body |-> NoBody]

Post_(client, path, body) ==
    [client |-> client, method |-> "POST", path |-> path,
     headers |-> NoHeaders, body |-> body]

\* a streaming request that drops the sse/ path and the Accept header
streamRequest_plain(queryKey) == Get_("apiDev", queryKey[1])

\* lines 30-33
streamRequest(queryKey) ==
    [client |-> "apiDev", method |-> "GET",
     path |-> "sse/" \o queryKey[1],
     headers |-> { <<"Accept", "text/event-stream">> },
     body |-> NoBody]

\* a regex request that sends queryKey[0] as the pattern
regexExamplesRequest_key0(queryKey) ==
    Post_("apiInstance", queryKey[1],
          [regex |-> Str(queryKey[1]), examples |-> TRUE])

\* lines 46-50
regexExamplesRequest(queryKey) ==
    Post_("apiInstance", queryKey[1],
          [regex |-> keyAt1(queryKey), examples |-> TRUE])

\* the request issued at each await
RequestAt(site, queryKey) ==
    CASE site = "L21" -> Get_("apiGeneric", queryKey[1])
      [] site = "L25" -> Get_("apiDev", queryKey[1])
      [] site = "L30" -> streamRequest(queryKey)
      [] site = "L36" -> Get_("apiDev", queryKey[1])
      [] site = "L42" -> Get_("auth", queryKey[1])
      [] site = "L50" -> regexExamplesRequest(queryKey)
      [] site = "L62" -> Post_("apiInstance", queryKey[1], [slot |-> keyAt1(queryKey)])
      [] site = "L69" -> Post_("apiInstance", queryKey[1], [form |-> keyAt1(queryKey)])
      [] site = "L76" -> Post_("apiInstance", queryKey[1], [story |-> keyAt1(queryKey)])
      [] site = "L83" -> Post_("apiInstance", queryKey[1], [rule |-> keyAt1(queryKey)])
      [] site = "L90" -> Post_("apiInstance", queryKey[1], [id |-> keyAt1(queryKey)])
      [] site = "L94" -> Get_("apiInstance", queryKey[1])

\* a final unwrap that tests "regexes" before "entities"
finalUnwrap_regexesFirst(queryKey) ==
    IF includes(queryKey, "regexes") THEN << "response", "regexes" >>
    ELSE IF includes(queryKey, "entities") THEN << "response" >>
    ELSE << >>

\* lines 96-104: the property path read off data after the default GET
finalUnwrap(queryKey) ==
    IF includes(queryKey, "entities") THEN << "response" >>
    ELSE IF includes(queryKey, "regexes") THEN << "response", "regexes" >>
    ELSE << >>

\* the property path read off data after each await: << >> is data itself
ReturnPath(site, queryKey) ==
    CASE site = "L21" -> << "response" >>
      [] site \in { "L25", "L30", "L36", "L42" } -> << >>
      [] site = "L50" -> << "response" >>
      [] site \in { "L62", "L69" } -> << >>
      [] site \in { "L76", "L83", "L90" } -> << "response" >>
      [] site = "L94" -> finalUnwrap(queryKey)

\* data?.response (line 22) tolerates a nullish data; data.response does not
OptionalChain(site) == site = "L21"

\* whether reading the path off data throws a TypeError
Throws(site, queryKey, data) ==
    LET path == ReturnPath(site, queryKey) IN
    \/ Len(path) >= 1 /\ Nullish(data) /\ ~OptionalChain(site)
    \/ Len(path) = 2 /\ (Nullish(data) \/ Nullish(Get(data, path[1])))

\* the value the call returns when reading the path does not throw
ReturnValue(site, queryKey, data) ==
    LET path == ReturnPath(site, queryKey) IN
    IF Len(path) = 0 THEN data
    ELSE IF Len(path) = 1 THEN
        (IF Nullish(data) THEN Undefined ELSE Get(data, path[1]))
    ELSE Get(Get(data, path[1]), path[2])

-----------------------------------------------------------------------------
(* The calls.                                                              *)

CallIds == { 1 }

IdleCall ==
    [pc |-> "idle", queryKey |-> << >>, site |-> "none",
     data |-> Undefined,      \* the body the awaited request answered with
     thrown |-> "none",       \* the error the awaited request failed with
     result |-> Undefined,    \* the value the call returned
     error |-> "none"]        \* the error the call rejected with

Init ==
    /\ REACT_APP_LOCAL \in { "true", "false" }
    /\ mockedEndpoints \in MockedLists
    /\ calls = [c \in CallIds |-> IdleCall]
    /\ requests = << >>
    /\ page = NotMounted
    /\ table = NotMounted

\* a resolve that joins the request of a call already in flight for the
\* same key instead of issuing its own
Invoke_coalesce(c, queryKey) ==
    LET site == defaultQueryFnSite(REACT_APP_LOCAL, mockedEndpoints, queryKey)
        inFlight == \E d \in DOMAIN calls :
                        calls[d].pc = "awaiting" /\ calls[d].queryKey = queryKey
    IN
    /\ calls[c].pc = "idle"
    /\ calls' = [calls EXCEPT ![c] =
                    [@ EXCEPT !.pc = "awaiting", !.queryKey = queryKey, !.site = site]]
    /\ requests' = IF inFlight THEN requests
                   ELSE Append(requests, [call |-> c, req |-> RequestAt(site, queryKey)])
    /\ UNCHANGED <<REACT_APP_LOCAL, mockedEndpoints, page, table>>

\* resolve(queryKey) is called: the rule chain runs and issues its request
Invoke(c, queryKey) ==
    LET site == defaultQueryFnSite(REACT_APP_LOCAL, mockedEndpoints, queryKey) IN
    /\ calls[c].pc = "idle"
    /\ calls' = [calls EXCEPT ![c] =
                    [@ EXCEPT !.pc = "awaiting", !.queryKey = queryKey, !.site = site]]
    /\ requests' = Append(requests, [call |-> c, req |-> RequestAt(site, queryKey)])
    /\ UNCHANGED <<REACT_APP_LOCAL, mockedEndpoints, page, table>>

\* the awaited request answers with a body: the call returns or throws
Respond(c, data) ==
    LET k == calls[c].queryKey
        s == calls[c].site
    IN
    /\ calls[c].pc = "awaiting"
    /\ calls' = [calls EXCEPT ![c] =
                    IF Throws(s, k, data)
                    THEN [@ EXCEPT !.pc = "rejected", !.error = "TypeError", !.data = data]
                    ELSE [@ EXCEPT !.pc = "resolved", !.data = data,
                                   !.result = ReturnValue(s, k, data)]]
    /\ UNCHANGED <<REACT_APP_LOCAL, mockedEndpoints, requests, page, table>>

\* a failure handler that issues the request once more before giving up
TransportFailure_retry(c, err) ==
    /\ calls[c].pc = "awaiting"
    /\ calls' = [calls EXCEPT ![c] =
                    [@ EXCEPT !.pc = "rejected", !.thrown = err, !.error = err]]
    /\ requests' = Append(requests,
                          [call |-> c, req |-> RequestAt(calls[c].site, calls[c].queryKey)])
    /\ UNCHANGED <<REACT_APP_LOCAL, mockedEndpoints, page, table>>

\* the awaited request fails: the await throws and the call rejects with it
TransportFailure(c, err) ==
    /\ calls[c].pc = "awaiting"
    /\ calls' = [calls EXCEPT ![c] =
                    [@ EXCEPT !.pc = "rejected", !.thrown = err, !.error = err]]
    /\ UNCHANGED <<REACT_APP_LOCAL, mockedEndpoints, requests, page, table>>

\* a caller invokes resolve with some query key
Call(c) ==
    /\ calls[c].pc = "idle"
    /\ \E queryKey \in Keys : Invoke(c, queryKey)

Next ==
    \/ \E c \in DOMAIN calls : Call(c)
    \/ \E c \in DOMAIN calls, data \in Bodies : Respond(c, data)
    \/ \E c \in DOMAIN calls, err \in TransportErrors : TransportFailure(c, err)

Spec == Init /\ [][Next]_vars

-----------------------------------------------------------------------------
(* Vocabulary of the properties, stated on the state alone.                *)

Started(c) == calls[c].pc # "idle"
Resolved(c) == calls[c].pc = "resolved"
Rejected(c) == calls[c].pc = "rejected"
KeyOf(c) == calls[c].queryKey
FirstToken(c) == calls[c].queryKey[1]
Has(c, token) == \E i \in DOMAIN calls[c].queryKey : calls[c].queryKey[i] = token
SecondToken(c) == IF Len(KeyOf(c)) >= 2 THEN Str(KeyOf(c)[2]) ELSE Undefined

\* the requests call c has issued
RequestsOf(c) ==
    LET own(r) == r.call = c IN SelectSeq(requests, own)

LocalFlag == REACT_APP_LOCAL = "true"
MockedPrefix(c) ==
    \E i \in DOMAIN mockedEndpoints : startsWith(FirstToken(c), mockedEndpoints[i])
FirstHasAuth(c) == strIncludes(FirstToken(c), "auth")

\* rule 1 catches the key
Rule1(c) == MockedPrefix(c) \/ (LocalFlag /\ Has(c, "prod"))
\* rules 1-3 do not catch the key
PastRule3(c) == ~Rule1(c) /\ ~Has(c, "settings") /\ ~Has(c, "prod")
\* rules 1-4 do not catch the key
PastRule4(c) == PastRule3(c) /\ ~FirstHasAuth(c)
\* rules 1-5 do not catch the key: it reaches the secondary stage
PastRule5(c) == PastRule4(c) /\ ~(Has(c, "regex") /\ Has(c, "examples"))

SecondaryTokens ==
    << "slots/slotById", "forms/formById", "story-by-name", "rule-by-name",
       "intents-report" >>
SecondaryFields == << "slot", "form", "story", "rule", "id" >>
HasSecondary(c) == \E i \in 1..5 : Has(c, SecondaryTokens[i])
\* the first secondary-stage token, in rule order, that the key contains
FirstSecondary(c) ==
    CHOOSE i \in 1..5 :
        /\ Has(c, SecondaryTokens[i])
        /\ \A j \in 1..(i - 1) : ~Has(c, SecondaryTokens[j])

\* call c issued exactly one request, a plain GET of its first token on client
OnlyPlainGet(c, client) ==
    /\ Len(RequestsOf(c)) = 1
    /\ LET r == RequestsOf(c)[1].req IN
        /\ r.client = client
        /\ r.method = "GET"
        /\ r.path = FirstToken(c)
        /\ r.headers = {}
        /\ r.body = [nobody |-> TRUE]

\* call c issued exactly one request, the event-stream GET of sse/<first token>
OnlyStreamGet(c) ==
    /\ Len(RequestsOf(c)) = 1
    /\ LET r == RequestsOf(c)[1].req IN
        /\ r.client = "apiDev"
        /\ r.method = "GET"
        /\ r.path = "sse/" \o FirstToken(c)
        /\ r.headers = { <<"Accept", "text/event-stream">> }
        /\ r.body = [nobody |-> TRUE]

\* call c issued exactly one request, a POST to its first token on the
\* primary client whose body is exactly {field: key[1]}
OnlyPostField(c, field) ==
    /\ Len(RequestsOf(c)) = 1
    /\ LET r == RequestsOf(c)[1].req IN
        /\ r.client = "apiInstance"
        /\ r.method = "POST"
        /\ r.path = FirstToken(c)
        /\ DOMAIN r.body = { field }
        /\ r.body[field] = SecondToken(c)

\* the response field of a body, undefined when the body has none
ResponseField(d) == IF "response" \in DOMAIN d THEN d.response ELSE Undefined

ReturnsRaw(c) == Resolved(c) => calls[c].result = calls[c].data
ReturnsResponse(c) == Resolved(c) => calls[c].result = ResponseField(calls[c].data)
\* the body call c was answered with is an envelope
Enveloped(c) == "response" \in DOMAIN calls[c].data
\* answered with an envelope, call c returns its response field, not the envelope
ReturnsEnvelopeResponse(c) ==
    Resolved(c) /\ Enveloped(c) =>
        /\ calls[c].result = calls[c].data.response
        /\ calls[c].result # calls[c].data
NoTypeError(c) == calls[c].error # "TypeError"

-----------------------------------------------------------------------------
(* C1: a key whose first token starts with a mocked-endpoint prefix is     *)
(* requested on the generic/mocked client and on no other client, whatever *)
(* other tokens it holds and whatever the local flag is.                   *)
C1_MockedPrefixTargetsGeneric ==
    \A c \in DOMAIN calls :
        Started(c) /\ MockedPrefix(c) =>
            /\ Len(RequestsOf(c)) >= 1
            /\ \A i \in 1..Len(RequestsOf(c)) :
                    RequestsOf(c)[i].req.client = "apiGeneric"

\* a mocked key that also holds "settings" and "prod", not local, answered
C1_Witness ==
    \E c \in DOMAIN calls :
        /\ Resolved(c) /\ MockedPrefix(c) /\ ~LocalFlag
        /\ Has(c, "settings") /\ Has(c, "prod")
        /\ OnlyPlainGet(c, "apiGeneric")

-----------------------------------------------------------------------------
(* C2 as stated: every key holding both "prod" and                         *)
(* "cs-get-all-active-chats" is requested as the event-stream GET of       *)
(* sse/<first token> and the raw response is returned.                     *)
C2_Original_ProdChatsAlwaysStream ==
    \A c \in DOMAIN calls :
        Started(c) /\ Has(c, "prod") /\ Has(c, "cs-get-all-active-chats") =>
            OnlyStreamGet(c) /\ ReturnsRaw(c)

(* C2 amended: a key holding both "prod" and "cs-get-all-active-chats"     *)
(* that rule 1 (mocked prefix, or local flag) and rule 2 ("settings") do   *)
(* not catch is requested as the event-stream GET of sse/<first token>,    *)
(* never as a plain GET, and the raw response is returned.                 *)
C2_ProdChatsStreamPastRules12 ==
    \A c \in DOMAIN calls :
        /\ Started(c) /\ Has(c, "prod") /\ Has(c, "cs-get-all-active-chats")
        /\ ~Rule1(c) /\ ~Has(c, "settings")
        => OnlyStreamGet(c) /\ ReturnsRaw(c) /\ NoTypeError(c)

C2_Witness ==
    \E c \in DOMAIN calls :
        /\ Resolved(c) /\ Has(c, "prod") /\ Has(c, "cs-get-all-active-chats")
        /\ ~Rule1(c) /\ ~Has(c, "settings")
        /\ OnlyStreamGet(c)
        /\ calls[c].result = [response |-> Payload1]

-----------------------------------------------------------------------------
(* C3 as stated: every key holding both "settings" and "prod" is served by *)
(* the "settings" rule: a plain GET of the first token on the staged       *)
(* client, raw body returned.                                              *)
C3_Original_SettingsBeatsProd ==
    \A c \in DOMAIN calls :
        Started(c) /\ Has(c, "settings") /\ Has(c, "prod") =>
            OnlyPlainGet(c, "apiDev") /\ ReturnsRaw(c)

(* C3 amended: a key holding both "settings" and "prod" that rule 1 does   *)
(* not catch (the deployment is not local and the first token matches no   *)
(* mocked prefix) is served by the "settings" rule: a plain GET of the     *)
(* first token on the staged client, raw body returned.                    *)
C3_SettingsBeatsProdPastRule1 ==
    \A c \in DOMAIN calls :
        Started(c) /\ Has(c, "settings") /\ Has(c, "prod") /\ ~Rule1(c) =>
            OnlyPlainGet(c, "apiDev") /\ ReturnsRaw(c) /\ NoTypeError(c)

\* such a key that also holds "cs-get-all-active-chats", answered
C3_Witness ==
    \E c \in DOMAIN calls :
        /\ Resolved(c) /\ ~Rule1(c)
        /\ Has(c, "settings") /\ Has(c, "prod") /\ Has(c, "cs-get-all-active-chats")
        /\ OnlyPlainGet(c, "apiDev")
        /\ calls[c].result = [response |-> Payload1]

-----------------------------------------------------------------------------
(* C4 as stated: in the secondary stage a key holding one of the five      *)
(* distinguishing tokens is sent as a POST to the first token on the       *)
(* primary client with body {slot|form|story|rule|id: key[1]}, and the     *)
(* caller receives the envelope's response field, not the envelope.        *)
C4_SecondaryPostUnwrapsResponse ==
    \A c \in DOMAIN calls :
        Started(c) /\ PastRule5(c) /\ HasSecondary(c) =>
            /\ OnlyPostField(c, SecondaryFields[FirstSecondary(c)])
            /\ ReturnsEnvelopeResponse(c)

-----------------------------------------------------------------------------
-----------------------------------------------------------------------------
(* C6: dispatch is total.  Every call is served by one rule and issues its *)
(* request; a key that matches no mocked prefix, holds none of "settings", *)
(* "prod", "regex"+"examples", a secondary-stage token, "entities" or      *)
(* "regexes", and whose first token lacks "auth", is served by a plain GET *)
(* of the first token on the primary client with the raw body returned;    *)
(* no call fails without having called a backend.                          *)
AwaitSites ==
    { "L21", "L25", "L30", "L36", "L42", "L50", "L62", "L69", "L76", "L83",
      "L90", "L94" }

NoRuleMatches(c) ==
    /\ PastRule5(c)
    /\ ~HasSecondary(c)
    /\ ~Has(c, "entities")
    /\ ~Has(c, "regexes")

C6_DispatchTotalWithDefaultGet ==
    \A c \in DOMAIN calls :
        Started(c) =>
            /\ calls[c].site \in AwaitSites
            /\ Len(RequestsOf(c)) = 1
            /\ Rejected(c) /\ NoTypeError(c) => calls[c].thrown \in TransportErrors
            /\ NoRuleMatches(c) =>
                /\ OnlyPlainGet(c, "apiInstance")
                /\ ReturnsRaw(c)
                /\ NoTypeError(c)

\* the key ["rules"], answered by the default GET with the envelope returned whole
C6_Witness ==
    \E c \in DOMAIN calls :
        /\ Resolved(c) /\ NoRuleMatches(c)
        /\ KeyOf(c) = << "rules" >>
        /\ OnlyPlainGet(c, "apiInstance")
        /\ calls[c].result = [response |-> Payload1]

-----------------------------------------------------------------------------
(* C7: a call whose backend request fails with a transport error rejects   *)
(* with that same error, has issued no second request and returns no       *)
(* payload; every call issues exactly one request, succeed or fail.        *)
C7_TransportErrorPropagates ==
    \A c \in DOMAIN calls :
        /\ Started(c) => Len(RequestsOf(c)) = 1
        /\ calls[c].thrown # "none" =>
            /\ Rejected(c)
            /\ calls[c].error = calls[c].thrown
            /\ calls[c].result = Undefined
            /\ calls[c].data = Undefined
        /\ Len(requests) = Cardinality({ c2 \in DOMAIN calls : Started(c2) })

\* a call of the default rule rejected with the network error it met
C7_Witness ==
    \E c \in DOMAIN calls :
        /\ Rejected(c)
        /\ calls[c].thrown = "NetworkError"
        /\ calls[c].error = "NetworkError"
        /\ Len(RequestsOf(c)) = 1

-----------------------------------------------------------------------------
(* C8: with the deployment flagged local, a key holding "prod" is served   *)
(* by a plain GET of the first token on the generic/mocked client and the  *)
(* envelope's response field is returned, also when the key holds          *)
(* "settings" or "cs-get-all-active-chats"; with the deployment not local  *)
(* and no mocked prefix matching the first token, the generic/mocked       *)
(* client is never called.                                                 *)
C8_LocalProdTargetsGeneric ==
    \A c \in DOMAIN calls :
        Started(c) =>
            /\ LocalFlag /\ Has(c, "prod") =>
                /\ OnlyPlainGet(c, "apiGeneric")
                /\ ReturnsResponse(c)
                /\ NoTypeError(c)
            /\ ~LocalFlag /\ ~MockedPrefix(c) =>
                \A i \in 1..Len(RequestsOf(c)) :
                    RequestsOf(c)[i].req.client # "apiGeneric"

\* local, no mocked prefix, a key holding "prod", "settings" and the chats
\* token, answered with an envelope
C8_Witness ==
    \E c \in DOMAIN calls :
        /\ Resolved(c) /\ LocalFlag /\ ~MockedPrefix(c)
        /\ Has(c, "prod") /\ Has(c, "settings") /\ Has(c, "cs-get-all-active-chats")
        /\ OnlyPlainGet(c, "apiGeneric")
        /\ calls[c].data = [response |-> Payload2]
        /\ calls[c].result = Payload2

-----------------------------------------------------------------------------
(* C9: a key that rules 1-4 do not catch and that holds both "regex" and   *)
(* "examples" is sent as a POST to the first token on the primary client   *)
(* with body {regex: key[1], examples: true}, and the envelope's response  *)
(* field is returned; secondary-stage tokens, "entities" and "regexes" in  *)
(* the key change nothing.                                                 *)
C9_RegexExamplesPost ==
    \A c \in DOMAIN calls :
        Started(c) /\ PastRule4(c) /\ Has(c, "regex") /\ Has(c, "examples") =>
            /\ Len(RequestsOf(c)) = 1
            /\ LET r == RequestsOf(c)[1].req IN
                /\ r.client = "apiInstance"
                /\ r.method = "POST"
                /\ r.path = FirstToken(c)
                /\ r.body = [regex |-> SecondToken(c), examples |-> TRUE]
            /\ ReturnsResponse(c)
            /\ ReturnsEnvelopeResponse(c)

\* such a key that also holds a secondary-stage token, answered with an envelope
C9_Witness ==
    \E c \in DOMAIN calls :
        /\ Resolved(c) /\ PastRule4(c)
        /\ KeyOf(c) = << "regex", "slots/slotById", "examples" >>
        /\ RequestsOf(c)[1].req.body =
                [regex |-> Str("slots/slotById"), examples |-> TRUE]
        /\ calls[c].data = [response |-> Payload1]
        /\ calls[c].result = Payload1

-----------------------------------------------------------------------------
(* C10: a key that rules 1-3 do not catch and whose first token contains   *)
(* "auth" is served by a plain GET of the first token on the auth client   *)
(* with the raw body returned, also when it holds "regex" and "examples"   *)
(* or a secondary-stage token; the auth client is called for no key whose  *)
(* first token lacks "auth".                                               *)
C10_AuthFirstToken ==
    \A c \in DOMAIN calls :
        Started(c) =>
            /\ PastRule3(c) /\ FirstHasAuth(c) =>
                /\ OnlyPlainGet(c, "auth")
                /\ ReturnsRaw(c)
                /\ NoTypeError(c)
            /\ ~FirstHasAuth(c) =>
                \A i \in 1..Len(RequestsOf(c)) :
                    RequestsOf(c)[i].req.client # "auth"

\* the key ["auth/me", "regex", "examples"], answered on the auth client
C10_Witness ==
    \E c \in DOMAIN calls :
        /\ Resolved(c) /\ PastRule3(c)
        /\ KeyOf(c) = << "auth/me", "regex", "examples" >>
        /\ OnlyPlainGet(c, "auth")
        /\ calls[c].result = [response |-> Payload1]

-----------------------------------------------------------------------------
(* Concurrent resolve calls: several calls of defaultQueryFn in flight at  *)
(* once, started and answered in any order.                                *)

\* resolve calls that may be in flight together
MaxCalls == 2

\* the keys the concurrent calls are made with: a key no rule names, a key
\* with a final unwrap, and two keys that differ in queryKey[1] alone
ConcKeys ==
    { << "rules" >>,
      << "entities" >>,
      << "slots/slotById", "rules" >>,
      << "slots/slotById", "prod" >> }

InitConc ==
    /\ REACT_APP_LOCAL \in { "true", "false" }
    /\ mockedEndpoints \in MockedLists
    /\ calls = [c \in 1..MaxCalls |-> IdleCall]
    /\ requests = << >>
    /\ page = NotMounted
    /\ table = NotMounted

\* a caller invokes resolve while other calls may be in flight
CallConc(c) ==
    /\ calls[c].pc = "idle"
    /\ \E queryKey \in ConcKeys : Invoke(c, queryKey)

NextConc ==
    \/ \E c \in DOMAIN calls : CallConc(c)
    \/ \E c \in DOMAIN calls, data \in Bodies : Respond(c, data)
    \/ \E c \in DOMAIN calls, err \in TransportErrors : TransportFailure(c, err)

SpecConc == InitConc /\ [][NextConc]_vars

\* what a call with this key does when it runs alone
AloneSite(queryKey) == defaultQueryFnSite(REACT_APP_LOCAL, mockedEndpoints, queryKey)
AloneRequest(queryKey) == RequestAt(AloneSite(queryKey), queryKey)

(* C11: under any interleaving of concurrent resolve calls, each call      *)
(* issues its own request (N calls, N requests, none shared or dropped)    *)
(* and its outcome is the one its own key and its own response give: the   *)
(* request, the returned value and the error are those of the same call    *)
(* running alone.                                                          *)
C11_ConcurrentCallsIndependent ==
    /\ Len(requests) = Cardinality({ c \in DOMAIN calls : Started(c) })
    /\ \A c \in DOMAIN calls :
        Started(c) =>
            /\ Len(RequestsOf(c)) = 1
            /\ RequestsOf(c)[1].req = AloneRequest(KeyOf(c))
            /\ Resolved(c) =>
                /\ ~Throws(AloneSite(KeyOf(c)), KeyOf(c), calls[c].data)
                /\ calls[c].result =
                        ReturnValue(AloneSite(KeyOf(c)), KeyOf(c), calls[c].data)
            /\ Rejected(c) =>
                \/ calls[c].thrown # "none" /\ calls[c].error = calls[c].thrown
                \/ /\ calls[c].thrown = "none"
                   /\ calls[c].error = "TypeError"
                   /\ Throws(AloneSite(KeyOf(c)), KeyOf(c), calls[c].data)

\* two calls with the same key in flight together: call 2 was started first,
\* call 1 was answered first, and each has its own request
C11_Witness ==
    /\ DOMAIN calls = 1..MaxCalls
    /\ Len(requests) = 2
    /\ requests[1].call = 2 /\ requests[2].call = 1
    /\ KeyOf(1) = << "entities" >> /\ KeyOf(2) = << "entities" >>
    /\ Resolved(1) /\ calls[1].result = Payload1
    /\ calls[2].pc = "awaiting"

-----------------------------------------------------------------------------
(* C12 as stated: two keys that differ in queryKey[1] alone are routed     *)
(* alike: same client, same method, same path and same unwrap; only the    *)
(* body value may differ.                                                  *)
DifferOnlyInKey1(k1, k2) ==
    /\ Len(k1) = Len(k2)
    /\ Len(k1) >= 2
    /\ \A i \in 1..Len(k1) : i # 2 => k1[i] = k2[i]

C12_RoutingIgnoresKey1 ==
    \A c, d \in DOMAIN calls :
        Started(c) /\ Started(d) /\ DifferOnlyInKey1(KeyOf(c), KeyOf(d)) =>
            LET rc == RequestsOf(c)[1].req
                rd == RequestsOf(d)[1].req
            IN
            /\ rc.client = rd.client
            /\ rc.method = rd.method
            /\ rc.path = rd.path
            /\ ReturnPath(calls[c].site, KeyOf(c)) = ReturnPath(calls[d].site, KeyOf(d))

-----------------------------------------------------------------------------
(* The Stories page (Stories/index.tsx, lines 21-204).                     *)
(*                                                                         *)
(* stories and rules are the lists handed to the two DataTables, as lists  *)
(* of row ids.  storiesResponse and rulesResponse are undefined until      *)
(* their query resolves, and are not refetched.  deleteStoryMutation is    *)
(* its status and its variables.  While refreshing is true the loading     *)
(* dialog lies over the page and its controls are not operated.            *)

\* longest list of stories, and of rules, the backend answers with
MaxRows == 2

RowIds == { "a", "b", "c" }

\* the lists of at most n distinct ids
RowLists(n) ==
    { l \in UNION { [1..k -> RowIds] : k \in 0..n } :
        \A i, j \in DOMAIN l : i # j => l[i] # l[j] }

NoVariables == [id |-> "", category |-> ""]

\* Array.prototype.filter(x => x.id !== id), on a list of ids
filterOut(list, id) ==
    LET keep(x) == x # id IN SelectSeq(list, keep)

\* lines 40-55: the effect on [rulesResponse, selectedTab, storiesResponse]
StoriesEffect(p) ==
    IF p.selectedTab = "stories" /\ p.storiesResponse # Undefined
    THEN [p EXCEPT !.stories = p.storiesResponse.response]
    ELSE IF p.selectedTab = "rules" /\ p.rulesResponse # Undefined
    THEN [p EXCEPT !.rules = p.rulesResponse.response]
    ELSE [p EXCEPT !.stories = << >>, !.rules = << >>]

\* lines 24-38 and the effect of the first render
StoriesMounted(hidden, storiesData, rulesData) ==
    StoriesEffect(
        [mounted |-> TRUE,
         isHiddenFeaturesEnabled |-> hidden,
         storiesData |-> storiesData,     \* what the ['stories'] query resolves with
         rulesData |-> rulesData,         \* what the ['rules'] query resolves with
         storiesResponse |-> Undefined,
         rulesResponse |-> Undefined,
         selectedTab |-> IF hidden THEN "stories" ELSE "rules",
         stories |-> << >>,
         rules |-> << >>,
         deleteConfirmation |-> FALSE,
         refreshing |-> FALSE,
         deleteId |-> "",
         status |-> "idle",               \* deleteStoryMutation.status
         variables |-> NoVariables])      \* deleteStoryMutation.variables

PageInits ==
    { StoriesMounted(h, sd, rd) :
        h \in BOOLEAN, sd \in RowLists(MaxRows), rd \in RowLists(MaxRows) }

\* lines 110-115: the tabs rendered
TabsShown == IF page.isHiddenFeaturesEnabled THEN { "stories", "rules" } ELSE { "rules" }

\* the rows of the table of the selected tab
RowsShown == IF page.selectedTab = "stories" THEN page.stories ELSE page.rules

\* lines 173 and 197: the controls can be operated
StoriesOperable == page.mounted /\ ~page.refreshing

\* lines 24-27: the ['stories'] query resolves
StoriesQueryResolves ==
    /\ page.mounted
    /\ page.isHiddenFeaturesEnabled
    /\ page.storiesResponse = Undefined
    /\ page' = StoriesEffect([page EXCEPT !.storiesResponse = [response |-> page.storiesData]])
    /\ UNCHANGED <<routerVars, table>>

\* lines 28-30: the ['rules'] query resolves
RulesQueryResolves ==
    /\ page.mounted
    /\ page.rulesResponse = Undefined
    /\ page' = StoriesEffect([page EXCEPT !.rulesResponse = [response |-> page.rulesData]])
    /\ UNCHANGED <<routerVars, table>>

\* lines 57-60
handleDelete(id) ==
    /\ StoriesOperable
    /\ \E i \in DOMAIN RowsShown : RowsShown[i] = id
    /\ page' = [page EXCEPT !.deleteConfirmation = TRUE, !.deleteId = id]
    /\ UNCHANGED <<routerVars, table>>

\* lines 176 and 179: the confirmation is closed or declined
closeDeleteConfirmation ==
    /\ StoriesOperable
    /\ page.deleteId # "" /\ page.deleteConfirmation
    /\ page' = [page EXCEPT !.deleteConfirmation = FALSE]
    /\ UNCHANGED <<routerVars, table>>

\* lines 182-185 and onMutate (line 73)
confirmDelete ==
    /\ StoriesOperable
    /\ page.deleteId # "" /\ page.deleteConfirmation
    /\ page' = [page EXCEPT
                    !.status = "loading",
                    !.variables = [id |-> page.deleteId, category |-> page.selectedTab],
                    !.refreshing = TRUE,
                    !.deleteConfirmation = FALSE]
    /\ UNCHANGED <<routerVars, table>>

\* lines 74-86 and 94-96: deleteStoryOrRule resolves; onSuccess, onSettled
deleteStorySucceeds ==
    /\ page.mounted
    /\ page.status = "loading"
    /\ page' = [page EXCEPT
                    !.status = "success",
                    !.stories = IF page.selectedTab = "stories"
                                THEN filterOut(@, page.deleteId) ELSE @,
                    !.rules = IF page.selectedTab = "stories"
                              THEN @ ELSE filterOut(@, page.deleteId),
                    !.refreshing = FALSE]
    /\ UNCHANGED <<routerVars, table>>

\* a failure path that leaves the loading dialog up
deleteStoryFails_noSettle ==
    /\ page.mounted
    /\ page.status = "loading"
    /\ page' = [page EXCEPT !.status = "error"]
    /\ UNCHANGED <<routerVars, table>>

\* lines 87-96: deleteStoryOrRule rejects; onError, onSettled
deleteStoryFails ==
    /\ page.mounted
    /\ page.status = "loading"
    /\ page' = [page EXCEPT !.status = "error", !.refreshing = FALSE]
    /\ UNCHANGED <<routerVars, table>>

\* lines 66-69 and the effect that the new selectedTab triggers
handleTabChange(value) ==
    /\ StoriesOperable
    /\ value \in TabsShown
    /\ value # page.selectedTab
    /\ page' = StoriesEffect([page EXCEPT !.selectedTab = value])
    /\ UNCHANGED <<routerVars, table>>

-----------------------------------------------------------------------------
(* The examples table of an intent (Stories/index.tsx, lines 345-664).     *)
(*                                                                         *)
(* examples is selectedIntent.examples, the array that the two list        *)
(* helpers edit in place.  The rows come from the examples prop, which the *)
(* component does not tie to selectedIntent, so a row may carry any        *)
(* example string.  Each mutation is its status; while refreshing is true  *)
(* the loading dialog lies over the table and its controls are not         *)
(* operated.                                                               *)

\* longest selectedIntent.examples
MaxExamples == 2

ExampleStrings == { "x", "y" }

ExampleLists(n) == UNION { [1..k -> ExampleStrings] : k \in 0..n }

\* Array.prototype.findIndex(item => item === example) and indexOf: 0-based, -1 when absent
findIndex(examplesArray, example) ==
    IF \E i \in DOMAIN examplesArray : examplesArray[i] = example
    THEN (CHOOSE i \in DOMAIN examplesArray :
            /\ examplesArray[i] = example
            /\ \A j \in 1..(i - 1) : examplesArray[j] # example) - 1
    ELSE -1

\* Array.prototype.splice(start, deleteCount): a negative start counts from the end
splice(examplesArray, start, deleteCount) ==
    LET len == Len(examplesArray)
        from == IF start < 0
                THEN (IF len + start < 0 THEN 0 ELSE len + start)
                ELSE (IF start > len THEN len ELSE start)
        count == IF deleteCount < 0 THEN 0
                 ELSE IF deleteCount > len - from THEN len - from ELSE deleteCount
    IN  SubSeq(examplesArray, 1, from) \o SubSeq(examplesArray, from + count + 1, len)

\* lines 395-399: examples[examples.indexOf(oldExample)] = newExample; index -1 is no element
updateExampleOnList(examplesArray, oldExample, newExample) ==
    LET index == findIndex(examplesArray, oldExample)
    IN  IF index = -1 THEN examplesArray
        ELSE [examplesArray EXCEPT ![index + 1] = newExample]

\* lines 401-408
deleteExampleFromList(examplesArray, example) ==
    LET index == findIndex(examplesArray, example)
    IN  splice(examplesArray, index, 1)

NoCall == [called |-> FALSE]

\* lines 356-364, for a selected intent
TableMounted(examplesArray) ==
    [mounted |-> TRUE,
     examples |-> examplesArray,
     refreshing |-> FALSE,
     exampleText |-> "",
     oldExampleText |-> "",
     editableRow |-> Null,
     deletableRow |-> Null,
     editStatus |-> "idle",       \* exampleEditMutation.status
     deleteStatus |-> "idle",     \* exampleDeleteMutation.status
     lastDelete |-> NoCall]       \* the last call of deleteExampleFromList

TableInits == { TableMounted(l) : l \in ExampleLists(MaxExamples) }

\* line 657: the controls can be operated
TableOperable == table.mounted /\ ~table.refreshing

\* lines 535-538
handleEditableRow(value) ==
    /\ TableOperable
    /\ table' = [table EXCEPT !.editableRow = [value |-> value]]
    /\ UNCHANGED <<routerVars, page>>

\* lines 381-384: escape leaves the edit
escapeEdit ==
    /\ TableOperable
    /\ table.editableRow # Null
    /\ table' = [table EXCEPT !.editableRow = Null]
    /\ UNCHANGED <<routerVars, page>>

\* lines 524-534 and onMutate (437-440); newExample is updatedExampleTitle.trim()
saveEdit(newExample) ==
    /\ TableOperable
    /\ table.editableRow # Null
    /\ table' = [table EXCEPT
                    !.oldExampleText = table.editableRow.value,
                    !.exampleText = newExample,
                    !.editStatus = "loading",
                    !.refreshing = TRUE]
    /\ UNCHANGED <<routerVars, page>>

\* lines 441-450 and 459-462: editExample resolves; onSuccess, onSettled
exampleEditSucceeds ==
    /\ table.mounted
    /\ table.editStatus = "loading"
    /\ table' = [table EXCEPT
                    !.editStatus = "success",
                    !.examples = updateExampleOnList(@, table.oldExampleText, table.exampleText),
                    !.editableRow = Null,
                    !.refreshing = FALSE]
    /\ UNCHANGED <<routerVars, page>>

\* lines 451-462: editExample rejects; onError, onSettled
exampleEditFails ==
    /\ table.mounted
    /\ table.editStatus = "loading"
    /\ table' = [table EXCEPT
                    !.editStatus = "error",
                    !.editableRow = Null,
                    !.refreshing = FALSE]
    /\ UNCHANGED <<routerVars, page>>

\* lines 547-550
setDeletableRow(value) ==
    /\ TableOperable
    /\ table' = [table EXCEPT !.deletableRow = [value |-> value]]
    /\ UNCHANGED <<routerVars, page>>

\* lines 599 and 604: the confirmation is closed or declined
closeDeletableRow ==
    /\ TableOperable
    /\ table.deletableRow # Null
    /\ table' = [table EXCEPT !.deletableRow = Null]
    /\ UNCHANGED <<routerVars, page>>

\* lines 610-615 and onMutate (468)
confirmDeleteExample ==
    /\ TableOperable
    /\ table.deletableRow # Null
    /\ table' = [table EXCEPT
                    !.oldExampleText = table.deletableRow.value,
                    !.deleteStatus = "loading",
                    !.refreshing = TRUE]
    /\ UNCHANGED <<routerVars, page>>

\* lines 469-477 and 485-488: deleteExample resolves; onSuccess, onSettled
exampleDeleteSucceeds ==
    /\ table.mounted
    /\ table.deleteStatus = "loading"
    /\ table' = [table EXCEPT
                    !.deleteStatus = "success",
                    !.examples = deleteExampleFromList(@, table.oldExampleText),
                    !.lastDelete = [called |-> TRUE,
                                    before |-> table.examples,
                                    example |-> table.oldExampleText,
                                    after |-> deleteExampleFromList(table.examples,
                                                                    table.oldExampleText)],
                    !.deletableRow = Null,
                    !.refreshing = FALSE]
    /\ UNCHANGED <<routerVars, page>>

\* lines 478-488: deleteExample rejects; onError, onSettled
exampleDeleteFails ==
    /\ table.mounted
    /\ table.deleteStatus = "loading"
    /\ table' = [table EXCEPT
                    !.deleteStatus = "error",
                    !.deletableRow = Null,
                    !.refreshing = FALSE]
    /\ UNCHANGED <<routerVars, page>>

-----------------------------------------------------------------------------
(* One component is on screen at a time.                                   *)

\* the router at rest while a component is looked at
RouterIdle ==
    /\ REACT_APP_LOCAL = "false"
    /\ mockedEndpoints = << >>
    /\ calls = [c \in CallIds |-> IdleCall]
    /\ requests = << >>

InitUI ==
    /\ RouterIdle
    /\ \/ page \in PageInits /\ table = NotMounted
       \/ page = NotMounted /\ table \in TableInits

NextUI ==
    \/ StoriesQueryResolves
    \/ RulesQueryResolves
    \/ \E id \in RowIds : handleDelete(id)
    \/ closeDeleteConfirmation
    \/ confirmDelete
    \/ deleteStorySucceeds
    \/ deleteStoryFails
    \/ \E value \in { "stories", "rules" } : handleTabChange(value)
    \/ \E value \in ExampleStrings : handleEditableRow(value)
    \/ escapeEdit
    \/ \E newExample \in ExampleStrings : saveEdit(newExample)
    \/ exampleEditSucceeds
    \/ exampleEditFails
    \/ \E value \in ExampleStrings : setDeletableRow(value)
    \/ closeDeletableRow
    \/ confirmDeleteExample
    \/ exampleDeleteSucceeds
    \/ exampleDeleteFails

SpecUI == InitUI /\ [][NextUI]_vars

-----------------------------------------------------------------------------
(* Claims about the two components.                                        *)

ListOf(p, category) == IF category = "stories" THEN p.stories ELSE p.rules

OnList(list, x) == \E i \in DOMAIN list : list[i] = x

\* the deletion that deleteStoryMutation last ran has succeeded
DeleteSucceeded(p) == p.mounted /\ p.status = "success"

\* the id of that deletion is among the rows shown
DeletedShown(p) ==
    /\ p.selectedTab = p.variables.category
    /\ OnList(ListOf(p, p.variables.category), p.variables.id)

\* C13: once deleteStoryMutation has succeeded for an id, the id is off the
\* list of the selected tab, and every later step that leaves the two query
\* responses as they are (a handleTabChange among them) keeps it off the
\* rows shown.
C13_DeletedStoryStaysAbsent ==
    [][ /\ (page.mounted /\ page.status = "loading" /\ DeleteSucceeded(page'))
            => ~DeletedShown(page')
        /\ (/\ DeleteSucceeded(page) /\ DeleteSucceeded(page')
            /\ page'.variables = page.variables
            /\ page'.storiesResponse = page.storiesResponse
            /\ page'.rulesResponse = page.rulesResponse
            /\ ~OnList(ListOf(page, page.variables.category), page.variables.id))
            => ~DeletedShown(page') ]_vars

\* list with the element at position i (1-based) left out
Without(list, i) == SubSeq(list, 1, i - 1) \o SubSeq(list, i + 1, Len(list))

\* C14: deleteExampleFromList(e) takes at most one element off the list, an
\* element equal to e, and leaves the list as it was when e is not on it.
C14_DeleteRemovesOnlyTheExample ==
    (table.mounted /\ table.lastDelete.called) =>
        LET before == table.lastDelete.before
            e == table.lastDelete.example
            after == table.lastDelete.after
        IN  IF OnList(before, e)
            THEN \E i \in DOMAIN before : before[i] = e /\ after = Without(before, i)
            ELSE after = before

\* C15: the refreshing flag of a component is up exactly while one of its
\* mutations (the Stories delete; the table's edit and delete) is running:
\* up from the start of the mutation, down once it has settled, by success
\* and by error alike.
C15_RefreshingTracksMutation ==
    /\ page.mounted => (page.refreshing <=> page.status = "loading")
    /\ table.mounted =>
         (table.refreshing <=>
            (table.editStatus = "loading" \/ table.deleteStatus = "loading"))

\* an edit has settled by success and a later delete by error; the flag is down
C15_Witness ==
    /\ table.mounted
    /\ table.editStatus = "success"
    /\ table.deleteStatus = "error"
    /\ ~table.refreshing

=============================================================================
